---- MODULE Spec2Model ----
(***************************************************************************)
(* Model of disasm/src/symbol.rs: the Symbol value type, its constructor   *)
(* pipeline (Rust demangle, then C++ demangle, then the raw name), the     *)
(* promote-if-unknown rule of SymbolLang::update, the accessors and the    *)
(* borrowed-to-owned conversion.                                           *)
(***************************************************************************)
EXTENDS Integers, Sequences, FiniteSets

VARIABLES
    overflow_checks, \* build profile: TRUE when `+` on usize panics on overflow
    pc,              \* "start" before the first Symbol::new, "built" after
    args,            \* the arguments of the latest Symbol::new call
    sym,             \* the Symbol value the caller holds
    before,          \* the Symbol value consumed by the latest owned() call
    owned_calls,     \* number of owned() calls applied to sym since Symbol::new
    cell,            \* a `mut lang: SymbolLang` cell driven by update() alone
    cell_init,       \* the value the cell started with
    incoming         \* the new_lang arguments passed to update(), in order

vars == <<overflow_checks, pc, args, sym, before, owned_calls, cell, cell_init, incoming>>

(***************************************************************************)
(* Bounds of the model.                                                    *)
(***************************************************************************)
\* width of usize in the model, in bits
UsizeBits == 2
\* largest u64 address drawn
AddrMax == 1
\* owned() calls followed per symbol
MaxOwned == 2
\* update() calls followed per cell
MaxUpdates == 3

UsizeMax == 2^UsizeBits - 1
Usize == 0..UsizeMax
U64 == 0..AddrMax

(***************************************************************************)
(* The enumerations.                                                       *)
(***************************************************************************)
SymbolType == {"Function", "Static"}

SymbolLang == {"Rust", "Cpp", "C", "Unknown"}

SymbolSource == {"Object", "Dwarf", "PDB"}

(***************************************************************************)
(* Cow<'data, str>: a view into the caller's buffer or an owned String.    *)
(***************************************************************************)
CowTags == {"Borrowed", "Owned"}

Cow(tag, s) == [tag |-> tag, str |-> s]

\* Cow::from(String)
CowFromString(s) == Cow("Owned", s)

\* Cow::into_owned: the String of an Owned, a fresh copy of a Borrowed
into_owned(c) == c.str

(***************************************************************************)
(* The two demanglers, on the names the model draws. Each returns          *)
(* Ok(rendering) or Err.                                                   *)
(***************************************************************************)
Names == {"", "plain_symbol", "junk$$$",
          "_ZN3foo3barEv", "_ZN3foo3barE", "_ZN3foo7bar$LT$E",
          "_RNvC1a3foo", "_ZN0E"}

Ok(s) == [ok |-> TRUE, str |-> s]

Err == [ok |-> FALSE, str |-> ""]

\* rustc_demangle::try_demangle(name), rendered with format!("{}", n).
\* Legacy names are _ZN <len><ident>... E with nothing after the E; a v0
\* name starts with _R; the crate root of a v0 path is printed with its
\* disambiguator only when that is non-zero.
try_demangle(n) ==
    CASE n = "_ZN3foo3barE"     -> Ok("foo::bar")
      [] n = "_ZN3foo7bar$LT$E" -> Ok("foo::bar<")
      [] n = "_RNvC1a3foo"      -> Ok("a::foo")
      [] n = "_ZN0E"            -> Ok("")
      [] OTHER                  -> Err

\* cpp_demangle::Symbol::new(name.as_bytes()), rendered with to_string()
CppSymbol_new(n) ==
    CASE n = "_ZN3foo3barEv"    -> Ok("foo::bar()")
      [] n = "_ZN3foo3barE"     -> Ok("foo::bar")
      [] n = "_ZN3foo7bar$LT$E" -> Ok("foo::bar$LT$")
      [] OTHER                  -> Err

(***************************************************************************)
(* SymbolLang::update                                                      *)
(***************************************************************************)
\* mutant: the guard dropped, the incoming language always stored
update_Always(self, new_lang) == new_lang

\* mutant: the guard inverted
update_Inverted(self, new_lang) == IF self # "Unknown" THEN new_lang ELSE self

update(self, new_lang) == IF self = "Unknown" THEN new_lang ELSE self

(***************************************************************************)
(* Symbol::new                                                             *)
(***************************************************************************)
MkSymbol(name, addr, bpos, blen, type_, source, lang) ==
    [name |-> name, addr |-> addr, bpos |-> bpos, blen |-> blen,
     lang |-> lang, source |-> source, type_ |-> type_]

\* mutant: the C++ demangler tried first
SymbolNew_CppFirst(name, addr, bpos, blen, type_, source, lang) ==
    LET c == CppSymbol_new(name.str)
        r == try_demangle(name.str)
    IN  MkSymbol(IF c.ok THEN CowFromString(c.str)
                 ELSE IF r.ok THEN CowFromString(r.str) ELSE name,
                 addr, bpos, blen, type_, source,
                 IF c.ok THEN update(lang, "Cpp")
                 ELSE IF r.ok THEN update(lang, "Rust") ELSE lang)

\* mutant: no or_else, the C++ demangler never tried
SymbolNew_NoFallback(name, addr, bpos, blen, type_, source, lang) ==
    LET r == try_demangle(name.str)
    IN  MkSymbol(IF r.ok THEN CowFromString(r.str) ELSE name,
                 addr, bpos, blen, type_, source,
                 IF r.ok THEN update(lang, "Rust") ELSE lang)

\* mutant: unwrap_or_default() in place of unwrap_or_else(|_| name)
SymbolNew_DropName(name, addr, bpos, blen, type_, source, lang) ==
    LET r == try_demangle(name.str)
        c == CppSymbol_new(name.str)
    IN  MkSymbol(IF r.ok THEN CowFromString(r.str)
                 ELSE IF c.ok THEN CowFromString(c.str) ELSE Cow("Borrowed", ""),
                 addr, bpos, blen, type_, source,
                 IF r.ok THEN update(lang, "Rust")
                 ELSE IF c.ok THEN update(lang, "Cpp") ELSE lang)

\* mutant: the C++ branch tags the symbol Rust
SymbolNew_CppTagsRust(name, addr, bpos, blen, type_, source, lang) ==
    LET r == try_demangle(name.str)
        c == CppSymbol_new(name.str)
    IN  MkSymbol(IF r.ok THEN CowFromString(r.str)
                 ELSE IF c.ok THEN CowFromString(c.str) ELSE name,
                 addr, bpos, blen, type_, source,
                 IF r.ok \/ c.ok THEN update(lang, "Rust") ELSE lang)

\* mutant: bpos and blen stored in each other's field
SymbolNew_SwapPosLen(name, addr, bpos, blen, type_, source, lang) ==
    LET r == try_demangle(name.str)
        c == CppSymbol_new(name.str)
    IN  MkSymbol(IF r.ok THEN CowFromString(r.str)
                 ELSE IF c.ok THEN CowFromString(c.str) ELSE name,
                 addr, blen, bpos, type_, source,
                 IF r.ok THEN update(lang, "Rust")
                 ELSE IF c.ok THEN update(lang, "Cpp") ELSE lang)

SymbolNew(name, addr, bpos, blen, type_, source, lang) ==
    LET r == try_demangle(name.str)
        c == CppSymbol_new(name.str)
        \* the closures of map() run only on success; or_else runs only on Err
        lang1 == IF r.ok THEN update(lang, "Rust")
                 ELSE IF c.ok THEN update(lang, "Cpp")
                 ELSE lang
        demangled_name == IF r.ok THEN CowFromString(r.str)
                          ELSE IF c.ok THEN CowFromString(c.str)
                          ELSE name
    IN  MkSymbol(demangled_name, addr, bpos, blen, type_, source, lang1)

(***************************************************************************)
(* Accessors                                                               *)
(***************************************************************************)
address(self) == self.addr

offset(self) == self.bpos

size(self) == self.blen

name(self) == self.name.str

lang(self) == self.lang

source(self) == self.source

type_(self) == self.type_

\* the outcome of end() when `self.bpos + self.blen` panics
Panic == -1

\* mutant: the length alone
end_LenOnly(self) == self.blen

\* usize addition: exact when it fits; on overflow a panic in a build with
\* overflow checks and the sum modulo 2^w in a build without
end(self) ==
    IF self.bpos + self.blen <= UsizeMax THEN self.bpos + self.blen
    ELSE IF overflow_checks THEN Panic
    ELSE (self.bpos + self.blen) % (UsizeMax + 1)

(***************************************************************************)
(* Symbol::owned                                                           *)
(***************************************************************************)
\* mutant: the Cow moved as it is
owned_KeepCow(self) ==
    [name |-> self.name, addr |-> self.addr, bpos |-> self.bpos,
     blen |-> self.blen, lang |-> self.lang, source |-> self.source,
     type_ |-> self.type_]

owned(self) ==
    [name |-> CowFromString(into_owned(self.name)), addr |-> self.addr,
     bpos |-> self.bpos, blen |-> self.blen, lang |-> self.lang,
     source |-> self.source, type_ |-> self.type_]

(***************************************************************************)
(* The state machine of a caller holding one Symbol.                       *)
(***************************************************************************)
NoArgs ==
    [name |-> Cow("Borrowed", ""), addr |-> 0, bpos |-> 0, blen |-> 0,
     type_ |-> "Function", source |-> "Object", lang |-> "Unknown"]

NoSymbol == MkSymbol(Cow("Borrowed", ""), 0, 0, 0, "Function", "Object", "Unknown")

Init ==
    /\ overflow_checks \in BOOLEAN
    /\ pc = "start"
    /\ args = NoArgs
    /\ sym = NoSymbol
    /\ before = NoSymbol
    /\ owned_calls = 0
    /\ cell = "Unknown"
    /\ cell_init = "Unknown"
    /\ incoming = <<>>

\* let s = Symbol::new(name, addr, bpos, blen, type_, source, lang)
New ==
    /\ pc = "start"
    /\ \E n \in Names, tag \in CowTags, addr \in U64, bpos \in Usize, blen \in Usize,
       t \in SymbolType, src \in SymbolSource, l \in SymbolLang :
        /\ args' = [name |-> Cow(tag, n), addr |-> addr, bpos |-> bpos,
                    blen |-> blen, type_ |-> t, source |-> src, lang |-> l]
        /\ sym' = SymbolNew(Cow(tag, n), addr, bpos, blen, t, src, l)
        /\ pc' = "built"
        /\ before' = NoSymbol
        /\ owned_calls' = 0
        /\ UNCHANGED <<overflow_checks, cell, cell_init, incoming>>

\* let s = s.owned()
Owned ==
    /\ pc = "built"
    /\ owned_calls < MaxOwned
    /\ before' = sym
    /\ sym' = owned(sym)
    /\ owned_calls' = owned_calls + 1
    /\ UNCHANGED <<overflow_checks, pc, args, cell, cell_init, incoming>>

Next == New \/ Owned

Spec == Init /\ [][Next]_vars

(***************************************************************************)
(* The state machine of one language cell under update() calls.            *)
(***************************************************************************)
InitLang ==
    /\ overflow_checks = FALSE
    /\ pc = "start"
    /\ args = NoArgs
    /\ sym = NoSymbol
    /\ before = NoSymbol
    /\ owned_calls = 0
    /\ cell \in SymbolLang
    /\ cell_init = cell
    /\ incoming = <<>>

\* lang.update(new_lang)
Update ==
    \E new_lang \in SymbolLang :
        /\ Len(incoming) < MaxUpdates
        /\ cell' = update(cell, new_lang)
        /\ incoming' = Append(incoming, new_lang)
        /\ UNCHANGED <<overflow_checks, pc, args, sym, before, owned_calls, cell_init>>

NextLang == Update

SpecLang == InitLang /\ [][NextLang]_vars

(***************************************************************************)
(* Properties of Symbol::new, the accessors and owned() (under Spec).      *)
(***************************************************************************)
Built == pc = "built"

\* the outcome of each demangler on the name the caller passed
RustResult == try_demangle(args.name.str)

CppResult == CppSymbol_new(args.name.str)

\* C1 (demangle precedence): whenever the Rust demangler accepts the name
\* passed to Symbol::new, name() is the Rust rendering, also when the C++
\* demangler accepts the same name, and lang() is Rust when the caller
\* passed Unknown.
C1_DemanglePrecedence ==
    (Built /\ RustResult.ok) =>
        /\ name(sym) = RustResult.str
        /\ (args.lang = "Unknown" => lang(sym) = "Rust")

\* a name both demanglers accept, with different renderings, built with Unknown
C1_Witness ==
    /\ Built /\ owned_calls = 0
    /\ args.name.str = "_ZN3foo7bar$LT$E"
    /\ RustResult.ok /\ CppResult.ok /\ RustResult.str # CppResult.str
    /\ args.lang = "Unknown"
    /\ name(sym) = "foo::bar<"
    /\ lang(sym) = "Rust"

\* C2 (demangle fallback): whenever the Rust demangler rejects the name and
\* the C++ demangler accepts it, name() is the C++ rendering and lang() is
\* Cpp when the caller passed Unknown.
C2_DemangleFallback ==
    (Built /\ ~RustResult.ok /\ CppResult.ok) =>
        /\ name(sym) = CppResult.str
        /\ (args.lang = "Unknown" => lang(sym) = "Cpp")

C2_Witness ==
    /\ Built /\ owned_calls = 0
    /\ args.name.str = "_ZN3foo3barEv"
    /\ ~RustResult.ok /\ CppResult.ok
    /\ args.lang = "Unknown"
    /\ name(sym) = "foo::bar()"
    /\ lang(sym) = "Cpp"

\* C3 (no-demangle passthrough): whenever both demanglers reject the name,
\* the empty name included, name() is the caller's name verbatim (the Cow
\* itself is the caller's until owned() is called) and lang() is the
\* caller's lang, Unknown included.
C3_Passthrough ==
    (Built /\ ~RustResult.ok /\ ~CppResult.ok) =>
        /\ name(sym) = args.name.str
        /\ (owned_calls = 0 => sym.name = args.name)
        /\ lang(sym) = args.lang

\* the empty name, passed as Unknown, comes back empty and Unknown
C3_Witness ==
    /\ Built /\ owned_calls = 0
    /\ args.name = Cow("Borrowed", "")
    /\ ~RustResult.ok /\ ~CppResult.ok
    /\ args.lang = "Unknown"
    /\ name(sym) = ""
    /\ sym.name.tag = "Borrowed"
    /\ lang(sym) = "Unknown"

\* C4 (caller-lang wins): whenever the caller passed Rust, Cpp or C, lang()
\* is the caller's lang whichever demangler succeeded or failed, and name()
\* is still the rendering of the demangler that succeeded.
C4_CallerLangWins ==
    (Built /\ args.lang # "Unknown") =>
        /\ lang(sym) = args.lang
        /\ (RustResult.ok => name(sym) = RustResult.str)
        /\ (~RustResult.ok /\ CppResult.ok => name(sym) = CppResult.str)

\* a C++ name passed as C: demangled, still C
C4_Witness ==
    /\ Built /\ owned_calls = 0
    /\ args.name.str = "_ZN3foo3barEv"
    /\ args.lang = "C"
    /\ name(sym) = "foo::bar()"
    /\ lang(sym) = "C"

\* the fields the constructor stores as they are
FieldAccessorsMatchInputs ==
    /\ address(sym) = args.addr
    /\ offset(sym) = args.bpos
    /\ size(sym) = args.blen
    /\ type_(sym) = args.type_
    /\ source(sym) = args.source

\* C6 as stated (accessor consistency): for every symbol built by
\* Symbol::new, end() = offset() + size() and address(), offset(), size(),
\* type_() and source() are the constructor's inputs.
C6_AccessorConsistency_Original ==
    Built => (end(sym) = offset(sym) + size(sym) /\ FieldAccessorsMatchInputs)

\* C6 amended: address(), offset(), size(), type_() and source() are the
\* constructor's inputs whatever demangling did, and end() = offset() +
\* size() whenever that sum fits in usize; when it does not, end() is the sum
\* modulo 2^w in a build without overflow checks and a panic in a build with.
C6_AccessorConsistency ==
    Built =>
        /\ FieldAccessorsMatchInputs
        /\ (offset(sym) + size(sym) <= UsizeMax =>
                end(sym) = offset(sym) + size(sym))
        /\ (offset(sym) + size(sym) > UsizeMax =>
                end(sym) = IF overflow_checks THEN Panic
                           ELSE offset(sym) + size(sym) - (UsizeMax + 1))

\* a demangled symbol whose accessors give back the inputs and their sum
C6_Witness ==
    /\ Built
    /\ RustResult.ok
    /\ args.addr = 1 /\ args.bpos = 2 /\ args.blen = 1
    /\ args.type_ = "Static" /\ args.source = "PDB"
    /\ address(sym) = 1 /\ offset(sym) = 2 /\ size(sym) = 1 /\ end(sym) = 3
    /\ type_(sym) = "Static" /\ source(sym) = "PDB"

\* C7 as stated (no wrap-around): for every symbol Symbol::new returns,
\* end() returns a value and end() >= offset().
C7_NoWrapAround_Original ==
    Built => (end(sym) # Panic /\ end(sym) >= offset(sym))

\* C7 amended: end() >= offset() whenever bpos + blen fits in usize; then
\* end() is the exact sum. Symbol::new checks neither argument.
C7_NoWrapAround ==
    (Built /\ args.bpos + args.blen <= UsizeMax) =>
        /\ end(sym) # Panic
        /\ end(sym) >= offset(sym)
        /\ end(sym) = args.bpos + args.blen

\* the largest sum that fits
C7_Witness ==
    /\ Built
    /\ args.bpos = 2 /\ args.blen = 1
    /\ offset(sym) = 2
    /\ end(sym) = 3

\* every accessor gives the same on two symbols
SameOnEveryAccessor(s, t) ==
    /\ name(s) = name(t)
    /\ address(s) = address(t)
    /\ offset(s) = offset(t)
    /\ end(s) = end(t)
    /\ size(s) = size(t)
    /\ lang(s) = lang(t)
    /\ source(s) = source(t)
    /\ type_(s) = type_(t)

\* C8 (owned severance): the symbol s.owned() returns equals s on every
\* accessor (its name and lang are those of s: nothing is demangled or
\* updated again), its name is an owned String, not a view into the
\* caller's buffer, and owned() applied to it gives the same symbol again.
C8_OwnedSeverance ==
    (Built /\ owned_calls >= 1) =>
        /\ SameOnEveryAccessor(sym, before)
        /\ sym.name.tag = "Owned"
        /\ owned(sym) = sym

\* a borrowed raw name after one owned() call
C8_Witness ==
    /\ Built /\ owned_calls = 1
    /\ before.name = Cow("Borrowed", "plain_symbol")
    /\ sym.name = Cow("Owned", "plain_symbol")
    /\ lang(sym) = lang(before)

\* C9 (language provenance): lang() = Rust only if the name is the Rust
\* demangler's rendering or the caller passed Rust; lang() = Cpp only if the
\* name is the C++ demangler's rendering or the caller passed Cpp; lang() =
\* C only if the caller passed C.
C9_LanguageProvenance ==
    Built =>
        /\ (lang(sym) = "Rust" =>
                \/ (RustResult.ok /\ name(sym) = RustResult.str)
                \/ args.lang = "Rust")
        /\ (lang(sym) = "Cpp" =>
                \/ (~RustResult.ok /\ CppResult.ok /\ name(sym) = CppResult.str)
                \/ args.lang = "Cpp")
        /\ (lang(sym) = "C" => args.lang = "C")

\* a symbol inferred to be Cpp from a name the Rust demangler rejects
C9_Witness ==
    /\ Built
    /\ args.lang = "Unknown"
    /\ lang(sym) = "Cpp"
    /\ ~RustResult.ok /\ CppResult.ok
    /\ name(sym) = CppResult.str

\* C10 as stated (name non-emptiness): name() is non-empty unless the caller
\* passed an empty name.
C10_NameNonEmpty_Original ==
    (Built /\ args.name.str # "") => name(sym) # ""

\* C10 amended: name() is empty only if the caller passed an empty name or
\* the demangler whose rendering was taken rendered the name as the empty
\* string.
C10_NameNonEmpty ==
    (Built /\ name(sym) = "") =>
        \/ args.name.str = ""
        \/ (RustResult.ok /\ RustResult.str = "")
        \/ (~RustResult.ok /\ CppResult.ok /\ CppResult.str = "")

\* a non-empty legacy name with one zero-length path element, accepted by the
\* Rust demangler and rendered as the empty string
C10_Witness ==
    /\ Built /\ owned_calls = 0
    /\ args.name.str = "_ZN0E"
    /\ RustResult.ok /\ RustResult.str = ""
    /\ name(sym) = ""
    /\ sym.name.tag = "Owned"

(***************************************************************************)
(* Properties of SymbolLang::update (under SpecLang).                      *)
(***************************************************************************)
\* C5 (language monotonicity): every update(l, i) call leaves the cell l
\* when l is not Unknown and makes it i when l is Unknown; so a language
\* that is not Unknown is never changed by any sequence of calls.
C5_LanguageMonotonicity ==
    [][ /\ (cell # "Unknown" => cell' = cell)
        /\ (cell = "Unknown" => cell' = incoming'[Len(incoming')]) ]_vars

\* an Unknown cell promoted by the first call and kept by the second
C5_Witness ==
    /\ cell_init = "Unknown"
    /\ incoming = <<"Cpp", "Rust">>
    /\ cell = "Cpp"

====
